---- MODULE Spec2Model ----
(***************************************************************************)
(* A model of the teaching snippets of the repository:                     *)
(*   - src/js-methods/map.js            Array.prototype.myMap              *)
(*   - src/star-rating/script.js        the star-rating widget             *)
(*   - src/dependancy-injection/02-dependancy-injection.md                 *)
(*                                      FileController and the route       *)
(*   - src/use-boolean-like-pro/app.js  getDiscount                        *)
(*   - src/unnamed/part_000             AuthLayout                         *)
(*   - src/unnamed/part_001             the SignUp form                    *)
(* The snippets do not interact; each has its own specification (SpecMap,  *)
(* SpecStar, SpecDI, SpecDisc, SpecAuth, SpecForm) over its own variables, *)
(* the other snippets' variables staying at rest.                          *)
(***************************************************************************)
EXTENDS Integers, Sequences, FiniteSets, TLC

VARIABLES
    \* ---- src/js-methods/map.js
    mapPc,        \* "idle" | "ready" (inputs chosen) | "done" (both maps ran)
    arr,          \* the receiver array (`this` of myMap, `users` in the file)
    callback,     \* the first argument
    thisArgs,     \* the second argument
    result,       \* outcome of the built-in  arr.map(callback, thisArgs)
    result2,      \* outcome of               arr.myMap(callback, thisArgs)
    \* ---- src/star-rating/script.js
    starPc,       \* "idle" | "loaded" (the script has run)
    stars,        \* children of #star-container: the .star elements, in order
    rating,       \* `let rating`
    ratingText,   \* ratingValue.innerText
    renders,      \* number of renderStars calls so far
    lastEvent,    \* history: the last call or event handled
    lastClick,    \* history: 1-based position of the last clicked star, 0 if none
    \* ---- src/dependancy-injection/02-dependancy-injection.md
    version,      \* "idle" | "written" (upload not awaited) | "fixed" (awaited)
    req,          \* the requests: what each has constructed, started and sent
    \* ---- src/use-boolean-like-pro/app.js
    discPc,       \* "idle" | "ready" (arguments chosen) | "done"
    price,        \* first argument of getDiscount
    discount,     \* second argument of getDiscount
    discounted,   \* what getDiscount returned
    \* ---- src/unnamed/part_000 (AuthLayout)
    visit,        \* the renderings of AuthLayout: how far each has come
    \* ---- src/unnamed/part_001 (SignUp)
    formPc,       \* "idle" | "shown"
    name,         \* useState: name
    email,        \* useState: email
    password,     \* useState: password
    emailReqs,    \* the authClient.signUp.email calls, in order
    socialReqs,   \* the authClient.signIn.social calls, in order
    submits,      \* history: number of handleSubmit invocations
    lastAction    \* history: what the user did last

mapVars == <<mapPc, arr, callback, thisArgs, result, result2>>
starVars == <<starPc, stars, rating, ratingText, renders, lastEvent, lastClick>>
diVars == <<version, req>>
discVars == <<discPc, price, discount, discounted>>
authVars == <<visit>>
formVars == <<formPc, name, email, password, emailReqs, socialReqs, submits,
              lastAction>>
vars == <<mapVars, starVars, diVars, discVars, authVars, formVars>>

\* What each snippet leaves alone: the variables of the others.
notMap == <<starVars, diVars, discVars, authVars, formVars>>
notStar == <<mapVars, diVars, discVars, authVars, formVars>>
notDI == <<mapVars, starVars, discVars, authVars, formVars>>
notDisc == <<mapVars, starVars, diVars, authVars, formVars>>
notAuth == <<mapVars, starVars, diVars, discVars, formVars>>
notForm == <<mapVars, starVars, diVars, discVars, authVars>>

(***************************************************************************)
(* Bounds of the model.                                                    *)
(***************************************************************************)
MaxLen == 3        \* longest receiver array
MaxRenders == 2    \* renderStars calls explored (the load-time one included)
MaxStale == 2      \* children the container may hold before the script runs
MaxReqs == 2       \* requests in flight together
MaxPrice == 9      \* largest price tried, in units of 100
MaxTenths == 10    \* largest discount tried, in tenths
MaxVisits == 2     \* renderings of AuthLayout in flight together
MaxClicks == 2     \* button clicks on the sign-up form

(***************************************************************************)
(* JavaScript values.                                                      *)
(***************************************************************************)
Num(n) == [t |-> "number", v |-> n]
Undefined == [t |-> "undefined", v |-> 0]
NaN == [t |-> "NaN", v |-> 0]
Str(n) == [t |-> "string", v |-> n]
\* An index that is not an own property of the array (a hole of a sparse
\* array, as in [1, , 3]); it is not a value, reading it yields undefined.
Hole == [t |-> "hole", v |-> 0]

Fn(f) == [t |-> "function", v |-> f]

\* typeof x === 'function'
IsFunction(x) == x.t = "function"

\* arr[i] for the 1-based position p = i + 1
Read(a, p) == IF a[p] = Hole THEN Undefined ELSE a[p]

\* i in arr
HasIndex(a, p) == a[p] # Hole

(***************************************************************************)
(* src/js-methods/map.js                                                   *)
(***************************************************************************)
\* The pure callbacks tried, by name:
\*   double  (x) => x * 2
\*   index   (x, idx) => idx
\*   length  (x, idx, array) => array.length
\*   self    function () { "use strict"; return this }
\*   seven   () => 7
CallbackNames == {"double", "index", "length", "self", "seven"}

\* callback.call(thisArg, x, i, array); i is the 0-based index
Call(cb, thisArg, x, i, a) ==
    CASE cb.v = "double" -> (IF x.t = "number" THEN Num(2 * x.v) ELSE NaN)
      [] cb.v = "index"  -> Num(i)
      [] cb.v = "length" -> Num(Len(a))
      [] cb.v = "self"   -> thisArg
      [] OTHER           -> Num(7)

\* What a call of map or myMap comes to: it returns an array, or throws.
Returned(a, n) == [threw |-> "none", returned |-> TRUE, value |-> a, visited |-> n]
Threw(e, n) == [threw |-> e, returned |-> FALSE, value |-> <<>>, visited |-> n]

\* The loop of myMap from index i on, `res` being the array built so far.
\* Every index below this.length is visited, present or not; calling a
\* callback that is no function throws a TypeError at the call.
RECURSIVE MyMapLoop(_, _, _, _, _)
MyMapLoop(this, cb, thisArg, i, res) ==
    IF ~(i < Len(this))
    THEN Returned(res, i)
    ELSE IF ~IsFunction(cb)
         THEN Threw("TypeError", i + 1)
         ELSE MyMapLoop(this, cb, thisArg, i + 1,
                        Append(res, Call(cb, thisArg, Read(this, i + 1), i, this)))

\* myMap without the typeof guard of lines 23-25.
MyMapUnguarded(this, cb, thisArg) == MyMapLoop(this, cb, thisArg, 0, <<>>)

\* Array.prototype.myMap = function (callback, thisArgs) { ... }
MyMap(this, cb, thisArg) ==
    IF ~IsFunction(cb)
    THEN Threw("TypeError", 0)
    ELSE MyMapLoop(this, cb, thisArg, 0, <<>>)

\* The loop of the built-in map (ECMA-262, Array.prototype.map, step 6):
\* the callback is called for the indices the array has, and only those are
\* defined on the new array A, whose length is that of the receiver.
RECURSIVE BuiltinMapLoop(_, _, _, _, _)
BuiltinMapLoop(this, cb, thisArg, k, A) ==
    IF ~(k < Len(this))
    THEN Returned(A, k)
    ELSE IF HasIndex(this, k + 1)
         THEN BuiltinMapLoop(this, cb, thisArg, k + 1,
                  [A EXCEPT ![k + 1] = Call(cb, thisArg, this[k + 1], k, this)])
         ELSE BuiltinMapLoop(this, cb, thisArg, k + 1, A)

\* The language's own arr.map(callback, thisArg), which line 14 calls.
BuiltinMap(this, cb, thisArg) ==
    IF ~IsFunction(cb)
    THEN Threw("TypeError", 0)
    ELSE BuiltinMapLoop(this, cb, thisArg, 0, [p \in 1..Len(this) |-> Hole])

\* Inputs: arrays up to MaxLen over a number, an explicit undefined and a
\* hole; the callbacks above and three arguments that are not functions.
Elements == {Num(1), Undefined, Hole}
Arrays == UNION {[1..n -> Elements] : n \in 0..MaxLen}
CallbackArgs == {Fn(n) : n \in CallbackNames} \cup {Undefined, Num(1), Str(1)}
ThisArgs == {Undefined, Num(5)}

MapIdle ==
    /\ mapPc = "idle"
    /\ arr = <<>>
    /\ callback = Undefined
    /\ thisArgs = Undefined
    /\ result = Threw("none", 0)
    /\ result2 = Threw("none", 0)

MapInit ==
    /\ mapPc = "ready"
    /\ arr \in Arrays
    /\ callback \in CallbackArgs
    /\ thisArgs \in ThisArgs
    /\ result = Threw("none", 0)
    /\ result2 = Threw("none", 0)

\* const result = users.map(...) and const result2 = users.myMap(...)
MapRun ==
    /\ mapPc = "ready"
    /\ result' = BuiltinMap(arr, callback, thisArgs)
    /\ result2' = MyMap(arr, callback, thisArgs)
    /\ mapPc' = "done"
    /\ UNCHANGED <<arr, callback, thisArgs, notMap>>

MapNext == MapRun

IsDense(a) == \A p \in 1..Len(a) : HasIndex(a, p)

\* C1: for every input array and every pure callback, myMap returns an
\* array element-wise identical to that of the built-in map: same length,
\* and element i equals callback(array[i], i, array) for every index i.
C1_MyMapEqualsBuiltinMap ==
    (mapPc = "done" /\ IsFunction(callback)) =>
        /\ result2.returned /\ result.returned
        /\ Len(result2.value) = Len(result.value)
        /\ \A p \in 1..Len(result2.value) :
              /\ Read(result2.value, p) = Read(result.value, p)
              /\ Read(result2.value, p)
                    = Call(callback, thisArgs, Read(arr, p), p - 1, arr)

\* The same comparison on the arrays without holes, where the two agree.
MyMapEqualsBuiltinMapOnDense ==
    (mapPc = "done" /\ IsFunction(callback) /\ IsDense(arr)) =>
        /\ result2 = result
        /\ Len(result2.value) = Len(arr)

\* C2: called with a callback that is not a function, myMap throws a
\* TypeError before visiting any element and returns no result array,
\* whatever the receiver, the empty array included.
C2_NonFunctionThrowsFirst ==
    (mapPc = "done" /\ ~IsFunction(callback)) =>
        /\ result2.threw = "TypeError"
        /\ result2.visited = 0
        /\ ~result2.returned
        /\ result2.value = <<>>

C2_Witness ==
    /\ mapPc = "done"
    /\ ~IsFunction(callback)
    /\ arr = <<>>
    /\ result2.threw = "TypeError"

(***************************************************************************)
(* src/star-rating/script.js                                               *)
(***************************************************************************)
TOTAL_STARS == 5

\* A child of #star-container. `i` is the loop variable its listeners
\* closed over (-1: an element renderStars did not make, without listeners).
Star(i) == [i |-> i, filled |-> FALSE]
StaleStar == [i |-> -1, filled |-> FALSE]

\* What `ratingValue.innerText = rating` displays: the number in decimal.
Digits == <<"0", "1", "2", "3", "4", "5", "6", "7", "8", "9">>
RECURSIVE ToText(_)
ToText(n) == IF n < 10 THEN Digits[n + 1]
             ELSE ToText(n \div 10) \o Digits[(n % 10) + 1]

\* The for loop of renderStars from i on, appending to the children `c`.
RECURSIVE AppendStars(_, _, _)
AppendStars(c, i, totalStars) ==
    IF ~(i < totalStars) THEN c
    ELSE AppendStars(Append(c, Star(i)), i + 1, totalStars)

\* renderStars that keeps the children the container already has.
renderStarsKeeping(c, totalStars) == AppendStars(c, 0, totalStars)

\* function renderStars(totalStars): the children of the container after
\* the call, `c` being its children before.
renderStars(c, totalStars) == AppendStars(<<>>, 0, totalStars)

\* highlightStars that only ever adds the class.
highlightStarsAdding(c, r) ==
    [p \in 1..Len(c) |-> [c[p] EXCEPT !.filled = (c[p].filled \/ (p - 1 < r))]]

\* function highlightStars(rating), over the .star elements `c`
highlightStars(c, r) ==
    [p \in 1..Len(c) |-> [c[p] EXCEPT !.filled = (p - 1 < r)]]

Event(type, p) == [type |-> type, pos |-> p]

StaleChildren == UNION {[1..n -> {StaleStar}] : n \in 0..MaxStale}

StarIdle ==
    /\ starPc = "idle"
    /\ stars = <<>>
    /\ rating = 0
    /\ ratingText = ""
    /\ renders = 0
    /\ lastEvent = Event("none", 0)
    /\ lastClick = 0

\* The page before line 43 runs: the container as the HTML has it.
StarInit ==
    /\ starPc = "loading"
    /\ stars \in StaleChildren
    /\ rating = 0
    /\ ratingText \in {"", "0"}
    /\ renders = 0
    /\ lastEvent = Event("none", 0)
    /\ lastClick = 0

\* renderStars(TOTAL_STARS): line 43 when the script loads, and any later
\* call of it.
RenderStars ==
    /\ starPc \in {"loading", "loaded"}
    /\ renders < MaxRenders
    /\ stars' = renderStars(stars, TOTAL_STARS)
    /\ starPc' = "loaded"
    /\ renders' = renders + 1
    /\ lastEvent' = Event("render", 0)
    /\ UNCHANGED <<rating, ratingText, lastClick, notStar>>

\* The positions of the stars that have listeners.
Listening == {p \in 1..Len(stars) : stars[p].i >= 0}

\* A mouseover listener that also stores the hovered star as the rating.
MouseoverSettingRating(p) ==
    /\ starPc = "loaded"
    /\ rating' = stars[p].i + 1
    /\ stars' = highlightStars(stars, rating')
    /\ lastEvent' = Event("mouseover", p)
    /\ UNCHANGED <<starPc, ratingText, renders, lastClick, notStar>>

\* star.addEventListener('mouseover', () => highlightStars(i + 1))
Mouseover(p) ==
    /\ starPc = "loaded"
    /\ stars' = highlightStars(stars, stars[p].i + 1)
    /\ lastEvent' = Event("mouseover", p)
    /\ UNCHANGED <<starPc, rating, ratingText, renders, lastClick, notStar>>

\* A mouseout listener that clears the stars.
MouseoutClearing(p) ==
    /\ starPc = "loaded"
    /\ stars' = highlightStars(stars, 0)
    /\ lastEvent' = Event("mouseout", p)
    /\ UNCHANGED <<starPc, rating, ratingText, renders, lastClick, notStar>>

\* star.addEventListener('mouseout', () => highlightStars(rating))
Mouseout(p) ==
    /\ starPc = "loaded"
    /\ stars' = highlightStars(stars, rating)
    /\ lastEvent' = Event("mouseout", p)
    /\ UNCHANGED <<starPc, rating, ratingText, renders, lastClick, notStar>>

\* A click listener that stores i instead of i + 1.
ClickOffByOne(p) ==
    /\ starPc = "loaded"
    /\ rating' = stars[p].i
    /\ ratingText' = ToText(rating')
    /\ lastEvent' = Event("click", p)
    /\ lastClick' = p
    /\ UNCHANGED <<starPc, stars, renders, notStar>>

\* star.addEventListener('click', () => { rating = i + 1; ... })
Click(p) ==
    /\ starPc = "loaded"
    /\ rating' = stars[p].i + 1
    /\ ratingText' = ToText(rating')
    /\ lastEvent' = Event("click", p)
    /\ lastClick' = p
    /\ UNCHANGED <<starPc, stars, renders, notStar>>

\* The stars that carry the class 'filled'.
Filled == {p \in 1..Len(stars) : stars[p].filled}

StarNext ==
    \/ RenderStars
    \/ \E p \in Listening : Mouseover(p)
    \/ \E p \in Listening : Mouseout(p)
    \/ \E p \in Listening : Click(p)

\* C3: after a click on star k the first k stars, and no others, carry the
\* class 'filled', whatever events came before the click.
C3_ClickFillsFirstK ==
    lastEvent.type = "click" => Filled = 1..lastEvent.pos

\* What the click listener does to the stars: nothing. They stay as the
\* last mouseover, mouseout or render left them.
ClickLeavesStars ==
    [][\A p \in Listening : Click(p) => stars' = stars]_vars

\* C4: after a mouseover on star k exactly the first k stars carry the
\* class 'filled' and the stars k+1..TOTAL_STARS do not, whatever the
\* rating is and whichever stars were filled before.
C4_MouseoverFillsFirstK ==
    lastEvent.type = "mouseover" =>
        /\ Len(stars) = TOTAL_STARS
        /\ Filled = 1..lastEvent.pos
        /\ \A p \in (lastEvent.pos + 1)..TOTAL_STARS : ~stars[p].filled

C4_Witness ==
    /\ lastEvent = Event("mouseover", 2)
    /\ rating = 4
    /\ Filled = {1, 2}

\* C5: after a mouseout on any star the filled stars are exactly the first
\* `rating` ones, rating being what the most recent click set (0, no star
\* filled, when there has been no click).
C5_MouseoutRestoresRating ==
    lastEvent.type = "mouseout" =>
        /\ Filled = 1..rating
        /\ rating = lastClick
        /\ (lastClick = 0 => Filled = {})

C5_Witness ==
    /\ lastEvent.type = "mouseout"
    /\ lastClick = 3
    /\ Filled = {1, 2, 3}

MaxTotal == 6      \* largest argument of renderStars tried

\* C6: renderStars(n) leaves the container holding exactly n stars, the
\* i-th of which sets rating i when clicked; a further call replaces the
\* stars instead of adding to them, so there are always TOTAL_STARS stars.
C6_RenderStarsExactlyN ==
    /\ \A n \in 0..MaxTotal :
          LET c == renderStars(stars, n)
          IN  /\ Len(c) = n
              /\ \A p \in 1..n : c[p].i + 1 = p
    /\ starPc = "loaded" =>
          /\ Len(stars) = TOTAL_STARS
          /\ \A p \in 1..Len(stars) : stars[p].i + 1 = p
    /\ lastEvent.type = "click" => rating = lastEvent.pos

C6_Witness ==
    /\ renders = 2
    /\ lastEvent.type = "render"
    /\ rating = 3
    /\ Len(stars) = TOTAL_STARS

\* C7: in every reachable state the rating is an integer between 0 and
\* TOTAL_STARS; it is 0 at first and afterwards the 1-based index of the
\* star clicked last.
C7_RatingInRange ==
    /\ rating \in 0..TOTAL_STARS
    /\ rating = lastClick
    /\ (lastClick = 0 => rating = 0)

C7_Witness ==
    /\ lastEvent.type = "mouseout"
    /\ rating = TOTAL_STARS
    /\ lastClick = TOTAL_STARS

\* The number a rating-value text shows (-1: none).
DisplayedNumber(text) ==
    CASE text = "0" -> 0 [] text = "1" -> 1 [] text = "2" -> 2
      [] text = "3" -> 3 [] text = "4" -> 4 [] text = "5" -> 5
      [] OTHER -> -1

\* C15: only a click changes the rating: every mouseover and mouseout
\* leaves the in-memory rating and the displayed rating-value text as they
\* were, and after any click the displayed text equals the in-memory rating.
C15_OnlyClickChangesRating ==
    /\ [][(lastEvent'.type \in {"mouseover", "mouseout"})
             => (rating' = rating /\ ratingText' = ratingText)]_vars
    /\ [][(rating' # rating \/ ratingText' # ratingText)
             => lastEvent'.type = "click"]_vars
    /\ [](lastClick # 0 => DisplayedNumber(ratingText) = rating)

C15_Witness ==
    /\ lastEvent = Event("mouseover", 5)
    /\ lastClick = 3
    /\ rating = 3
    /\ ratingText = "3"

(***************************************************************************)
(* src/dependancy-injection/02-dependancy-injection.md                     *)
(***************************************************************************)
Reqs == 1..MaxReqs

\* req.query.uploader: a string, or missing (undefined)
Query(v) == [present |-> TRUE, value |-> v]
MissingQuery == [present |-> FALSE, value |-> ""]
Queries == {Query("s3"), Query("cloudinary"), Query("azure"), Query("S3"),
            Query(""), MissingQuery}

\* uploaderStr === str
StrictEquals(q, str) == q.present /\ q.value = str

\* An uploader object: its class and its bucket.
NoObject == [cls |-> "none", bucket |-> ""]
S3Uploader(bucket) == [cls |-> "S3Uploader", bucket |-> bucket]
ClUploader(bucket) == [cls |-> "ClUploader", bucket |-> bucket]
\* Any other implementation of `interface Uploader`, such as the
\* FakeUploader of the testing example.
OtherUploader == [cls |-> "Uploader", bucket |-> ""]

NoResponse == [status |-> 0, message |-> ""]
Success == [status |-> 200, message |-> "File uploaded successfully!"]
Invalid == [status |-> 400, message |-> "Invalid uploader specified"]

\* What happened for a request, in order.
Ev(ev, cls, arg, status) == [ev |-> ev, cls |-> cls, arg |-> arg, status |-> status]

NewRequest ==
    [pc |-> "new", entry |-> "none", query |-> MissingQuery,
     uploader |-> NoObject, controller |-> NoObject,
     promise |-> "none", response |-> NoResponse, log |-> <<>>]

\* How the promise of uploader.upload() can stand when the call returns.
\* The bodies of S3Uploader.upload and ClUploader.upload hold no await: they
\* log and return true, so their promise is fulfilled when the call returns.
\* Another implementation of Uploader may return a promise that is fulfilled,
\* rejected or still pending.
OtherOutcomes == {"fulfilled", "rejected", "pending"}

\* The line S3Uploader.upload and ClUploader.upload write to the console.
UploadLine(u, filename) ==
    CASE u.cls = "S3Uploader" ->
            "Uploading " \o filename \o " to S3 in bucket " \o u.bucket \o "..."
      [] u.cls = "ClUploader" ->
            "Uploading " \o filename \o " to Cloudinary in bucket " \o u.bucket \o "..."
      [] OTHER -> ""

\* the promise settles
Settled(rec, how) ==
    [rec EXCEPT !.promise = how,
                !.log = Append(@, Ev("settle", rec.uploader.cls, how, 0))]

\* An upload that calls an imported S3 uploader, as the non-DI controller
\* does, whatever was injected.
CallUploadHardwired(rec, filename, how) ==
    LET u == [cls |-> "S3Uploader", bucket |-> "my-s3-bucket"]
        called == [rec EXCEPT !.promise = "pending",
                              !.log = Append(Append(@,
                                         Ev("upload", u.cls, filename, 0)),
                                         Ev("console", u.cls, UploadLine(u, filename), 0))]
    IN  IF how = "pending" THEN called ELSE Settled(called, how)

\* this.uploader.upload(filename), the promise standing as `how` at return
CallUpload(rec, filename, how) ==
    LET u == rec.controller
        called == [rec EXCEPT !.promise = "pending",
                              !.log = Append(Append(@,
                                         Ev("upload", u.cls, filename, 0)),
                                         Ev("console", u.cls, UploadLine(u, filename), 0))]
    IN  IF how = "pending" THEN called ELSE Settled(called, how)

\* res.json(body) and res.status(n).json(body)
Respond(rec, response) ==
    [rec EXCEPT !.response = response,
                !.log = Append(@, Ev("respond", "", response.message, response.status))]

\* FileController.upload as fixed (lines 514-518): it stops at the await.
UploadFixed(rec, how) ==
    [CallUpload(rec, "sample-file.mp4", how) EXCEPT !.pc = "suspended"]

\* An upload as written that waits for the promise all the same.
UploadWrittenAwaiting(rec, how) ==
    [CallUpload(rec, "sample-file.mp4", how) EXCEPT !.pc = "suspended"]

\* FileController.upload as written (lines 103-106), without await
UploadWritten(rec, how) ==
    [Respond(CallUpload(rec, "sample-file.mp4", how), Success) EXCEPT !.pc = "done"]

\* The rest of the fixed upload that sends the response whatever the
\* promise came to.
ResumedIgnoringRejection(rec) ==
    [Respond(rec, Success) EXCEPT !.pc = "done"]

\* The rest of the fixed upload, once the awaited promise has settled: the
\* response when it fulfilled; when it rejected the await throws, upload's
\* own promise rejects and so does the awaiting call site.
Resumed(rec) ==
    IF rec.promise = "fulfilled"
    THEN [Respond(rec, Success) EXCEPT !.pc = "done"]
    ELSE [rec EXCEPT !.pc = "failed"]

\* new FileController(uploader).upload(req, res), for uploader = new u
Inject(rec, u, how) ==
    LET made == [rec EXCEPT !.uploader = u,
                            !.controller = u,
                            !.log = Append(Append(@,
                                       Ev("new", u.cls, u.bucket, 0)),
                                       Ev("new", "FileController", u.cls, 0))]
    IN  IF version = "written" THEN UploadWritten(made, how)
        ELSE UploadFixed(made, how)

\* A route that falls back on S3 when the parameter is missing.
RouteDefaultingToS3(rec) ==
    IF StrictEquals(rec.query, "s3") \/ ~rec.query.present
    THEN Inject(rec, S3Uploader("my-s3-bucket"), "fulfilled")
    ELSE IF StrictEquals(rec.query, "cloudinary")
         THEN Inject(rec, ClUploader("my-cloudinary-bucket"), "fulfilled")
         ELSE [Respond(rec, Invalid) EXCEPT !.pc = "done"]

\* app.get("/file-upload", (req, res) => { ... })
Route(rec) ==
    IF StrictEquals(rec.query, "s3")
    THEN Inject(rec, S3Uploader("my-s3-bucket"), "fulfilled")
    ELSE IF StrictEquals(rec.query, "cloudinary")
         THEN Inject(rec, ClUploader("my-cloudinary-bucket"), "fulfilled")
         ELSE [Respond(rec, Invalid) EXCEPT !.pc = "done"]

DIIdle ==
    /\ version = "idle"
    /\ req = [r \in Reqs |-> NewRequest]

\* The server runs the controller as written or as fixed.
DIInit ==
    /\ version \in {"written", "fixed"}
    /\ req = [r \in Reqs |-> NewRequest]

\* GET /file-upload?uploader=q
RouteRequest(r, q) ==
    /\ req[r].pc = "new"
    /\ req' = [req EXCEPT ![r] =
                  Route([@ EXCEPT !.entry = "route", !.query = q])]
    /\ UNCHANGED <<version, notDI>>

\* new FileController(uploader).upload(req, res) with another Uploader, as
\* in the testing example
DirectUpload(r, how) ==
    /\ req[r].pc = "new"
    /\ how \in OtherOutcomes
    /\ req' = [req EXCEPT ![r] =
                  Inject([@ EXCEPT !.entry = "direct"], OtherUploader, how)]
    /\ UNCHANGED <<version, notDI>>

\* A pending upload fulfils or rejects.
Settle(r, how) ==
    /\ req[r].promise = "pending"
    /\ how \in {"fulfilled", "rejected"}
    /\ req' = [req EXCEPT ![r] = Settled(@, how)]
    /\ UNCHANGED <<version, notDI>>

\* The awaiting upload goes on after the promise has settled.
Resume(r) ==
    /\ req[r].pc = "suspended"
    /\ req[r].promise \in {"fulfilled", "rejected"}
    /\ req' = [req EXCEPT ![r] = Resumed(@)]
    /\ UNCHANGED <<version, notDI>>

DINext ==
    \/ \E r \in Reqs, q \in Queries : RouteRequest(r, q)
    \/ \E r \in Reqs, how \in OtherOutcomes : DirectUpload(r, how)
    \/ \E r \in Reqs, how \in {"fulfilled", "rejected"} : Settle(r, how)
    \/ \E r \in Reqs : Resume(r)

\* Positions of the events of a kind in a request's log.
At(rec, ev) == {k \in 1..Len(rec.log) : rec.log[k].ev = ev}
Started(rec) == At(rec, "upload") # {}


\* The position of the response in a request's log (0: none was sent).
RespondedAt(rec) == IF At(rec, "respond") = {} THEN 0
                    ELSE CHOOSE k \in At(rec, "respond") : TRUE

\* C8 (as stated): with upload as written, not awaited, the success
\* response is sent in the step that starts the upload, before the promise
\* settles, and so in every execution, whether the upload fulfils or rejects.
C8_SentBeforePromiseSettles ==
    version = "written" =>
        \A r \in Reqs :
            Started(req[r]) =>
                /\ req[r].response = Success
                /\ \A j \in At(req[r], "settle") : RespondedAt(req[r]) < j

\* C8 (amended): with upload as written the success response is sent in the
\* step that starts the upload, whatever the promise has come to by then
\* (pending, or settled already), and so in every execution, whether the
\* upload fulfils or rejects.
C8_SentWithoutAwaiting ==
    version = "written" =>
        \A r \in Reqs :
            Started(req[r]) =>
                /\ req[r].response = Success
                /\ req[r].pc = "done"
                /\ Cardinality(At(req[r], "respond")) = 1
                /\ \A k \in At(req[r], "upload") : k < RespondedAt(req[r])
                /\ req[r].promise \in {"pending", "fulfilled", "rejected"}

\* The upload rejected after the response had gone out.
C8_Witness ==
    /\ version = "written"
    /\ \E r \in Reqs :
          /\ req[r].promise = "rejected"
          /\ req[r].response = Success
          /\ \E j \in At(req[r], "settle") : RespondedAt(req[r]) < j

\* C9: with upload fixed (async, awaiting the uploader, and awaited where it
\* is called) the success response is sent only after the uploader's promise
\* has fulfilled; when the promise rejects no success response is sent for
\* that request.
C9_SentOnlyAfterFulfilled ==
    version = "fixed" =>
        \A r \in Reqs :
            /\ req[r].response = Success =>
                  /\ req[r].promise = "fulfilled"
                  /\ \E j \in At(req[r], "settle") :
                        /\ req[r].log[j].arg = "fulfilled"
                        /\ j < RespondedAt(req[r])
            /\ req[r].promise = "rejected" =>
                  /\ req[r].response = NoResponse
                  /\ At(req[r], "respond") = {}
            /\ req[r].promise = "pending" => req[r].response = NoResponse

C9_Witness ==
    /\ version = "fixed"
    /\ \E r \in Reqs :
          /\ req[r].promise = "rejected"
          /\ req[r].pc = "failed"
          /\ req[r].response = NoResponse
    /\ \E r \in Reqs :
          /\ req[r].promise = "fulfilled"
          /\ req[r].pc = "done"
          /\ req[r].response = Success

\* The requests the route has handled whose uploader parameter is neither
\* "s3" nor "cloudinary", a missing parameter included.
InvalidRequests ==
    {r \in Reqs : /\ req[r].entry = "route"
                  /\ ~StrictEquals(req[r].query, "s3")
                  /\ ~StrictEquals(req[r].query, "cloudinary")}

\* C10: a /file-upload request whose uploader parameter is neither "s3" nor
\* "cloudinary" (or is missing) is answered with status 400 and the message
\* 'Invalid uploader specified'; no uploader and no FileController is
\* constructed and no upload is started.
C10_InvalidUploaderRejected ==
    \A r \in InvalidRequests :
        /\ req[r].response = Invalid
        /\ req[r].response.status = 400
        /\ req[r].response.message = "Invalid uploader specified"
        /\ req[r].uploader = NoObject
        /\ req[r].controller = NoObject
        /\ At(req[r], "new") = {}
        /\ ~Started(req[r])
        /\ req[r].promise = "none"
        /\ req[r].pc = "done"

C10_Witness ==
    /\ \E r \in InvalidRequests : req[r].query = MissingQuery /\ req[r].response = Invalid
    /\ \E r \in InvalidRequests : req[r].query = Query("S3") /\ req[r].response = Invalid

\* The requests the route has handled whose uploader parameter is `str`.
RoutedTo(str) ==
    {r \in Reqs : req[r].entry = "route" /\ StrictEquals(req[r].query, str)}

\* The upload of request r ran once, as the method of u, on the sample file,
\* and no method of the class `other` ran.
RanOnceOn(r, u, line, other) ==
    /\ req[r].uploader = u
    /\ req[r].controller = u
    /\ Cardinality(At(req[r], "upload")) = 1
    /\ \A k \in At(req[r], "upload") :
          /\ req[r].log[k].cls = u.cls
          /\ req[r].log[k].arg = "sample-file.mp4"
    /\ Cardinality(At(req[r], "console")) = 1
    /\ \A k \in At(req[r], "console") : req[r].log[k].arg = line
    /\ \A k \in 1..Len(req[r].log) : req[r].log[k].cls # other

\* C11: with uploader = "s3" the upload method that runs is S3Uploader's
\* (bucket my-s3-bucket), with uploader = "cloudinary" it is ClUploader's
\* (bucket my-cloudinary-bucket): always the method of the object injected
\* into FileController, called once per request with "sample-file.mp4", the
\* other implementation never being invoked.
C11_InjectedUploaderRuns ==
    /\ \A r \in RoutedTo("s3") :
          RanOnceOn(r, [cls |-> "S3Uploader", bucket |-> "my-s3-bucket"],
                    "Uploading sample-file.mp4 to S3 in bucket my-s3-bucket...",
                    "ClUploader")
    /\ \A r \in RoutedTo("cloudinary") :
          RanOnceOn(r, [cls |-> "ClUploader", bucket |-> "my-cloudinary-bucket"],
                    "Uploading sample-file.mp4 to Cloudinary in bucket my-cloudinary-bucket...",
                    "S3Uploader")
    /\ \A r \in Reqs : \A k \in At(req[r], "upload") :
          req[r].log[k].cls = req[r].controller.cls

C11_Witness ==
    /\ RoutedTo("s3") # {}
    /\ RoutedTo("cloudinary") # {}
    /\ \A r \in Reqs : req[r].pc = "done" /\ req[r].response = Success

(***************************************************************************)
(* src/use-boolean-like-pro/app.js                                         *)
(***************************************************************************)
\* Numbers are kept exactly, in hundredths: Dec(10) is 0.1, Dec(10000) is 100.
Dec(h) == [t |-> "number", v |-> h]
Null == [t |-> "null", v |-> 0]

\* a * b and a - b
Times(a, b) == IF a.t # "number" \/ b.t # "number" THEN NaN
               ELSE Dec((a.v * b.v) \div 100)
Minus(a, b) == IF a.t # "number" \/ b.t # "number" THEN NaN
               ELSE Dec(a.v - b.v)

\* a ?? b: b when a is null or undefined
Nullish(a, b) == IF a.t \in {"null", "undefined"} THEN b ELSE a

\* a || b: b when a is falsy (null, undefined, 0, NaN)
Or(a, b) == IF a.t \in {"null", "undefined", "NaN"} \/ (a.t = "number" /\ a.v = 0)
            THEN b ELSE a

\* getDiscount with ||, the version of lines 45-49.
getDiscountOr(p, d) ==
    LET d1 == Or(d, Dec(10))
    IN  Minus(p, Times(p, d1))

\* function getDiscount(price, discount), lines 53-57
getDiscount(p, d) ==
    LET d1 == Nullish(d, Dec(10))
    IN  Minus(p, Times(p, d1))

Prices == {Dec(10000 * k) : k \in 0..MaxPrice}
\* a missing argument is undefined
Discounts == {Undefined, Null, NaN} \cup {Dec(10 * k) : k \in 0..MaxTenths}

DiscIdle ==
    /\ discPc = "idle"
    /\ price = Dec(0)
    /\ discount = Undefined
    /\ discounted = Undefined

DiscInit ==
    /\ discPc = "ready"
    /\ price \in Prices
    /\ discount \in Discounts
    /\ discounted = Undefined

\* console.log(getDiscount(100, 0)), for any arguments
DiscRun ==
    /\ discPc = "ready"
    /\ discounted' = getDiscount(price, discount)
    /\ discPc' = "done"
    /\ UNCHANGED <<price, discount, notDisc>>

DiscNext == DiscRun

\* C14: getDiscount replaces the discount by the default 0.1 only when it
\* is null or undefined: a supplied discount of 0 is kept, so
\* getDiscount(price, 0) returns price unchanged, and any other supplied
\* discount d returns price - price * d.
C14_DefaultOnlyWhenNullish ==
    discPc = "done" =>
        /\ discount.t \in {"null", "undefined"} =>
              discounted = Dec(price.v - (price.v * 10) \div 100)
        /\ discount = Dec(0) => discounted = price
        /\ discount.t = "number" =>
              discounted = Dec(price.v - (price.v * discount.v) \div 100)
        /\ discount.t = "NaN" => discounted = NaN

C14_Witness ==
    /\ discPc = "done"
    /\ price = Dec(10000)
    /\ discount = Dec(0)
    /\ discounted = Dec(10000)

(***************************************************************************)
(* src/unnamed/part_000: AuthLayout                                        *)
(***************************************************************************)
Visits == 1..MaxVisits

\* What auth.api.getSession resolves to: a session, or null.
Session(user) == [t |-> "session", v |-> user]
Sessions == {Null, Session(1)}

\* if (session)
Truthy(x) == x.t \notin {"null", "undefined"}

NewVisit ==
    [pc |-> "new", page |-> "", session |-> Undefined, looked |-> FALSE,
     redirect |-> "", rendered |-> FALSE]

\* The rest of AuthLayout if redirect() returned instead of throwing.
AfterSessionFallingThrough(rec, s) ==
    IF Truthy(s)
    THEN [rec EXCEPT !.session = s, !.looked = TRUE,
                     !.redirect = "/dashboard", !.rendered = TRUE,
                     !.pc = "rendered"]
    ELSE [rec EXCEPT !.session = s, !.looked = TRUE,
                     !.rendered = TRUE, !.pc = "rendered"]

\* AuthLayout from line 13 on, `s` being what the awaited getSession gave:
\* redirect() throws, so nothing after it runs.
AfterSession(rec, s) ==
    IF Truthy(s)
    THEN [rec EXCEPT !.session = s, !.looked = TRUE,
                     !.redirect = "/dashboard", !.pc = "redirected"]
    ELSE [rec EXCEPT !.session = s, !.looked = TRUE,
                     !.rendered = TRUE, !.pc = "rendered"]

AuthIdle == visit = [v \in Visits |-> [NewVisit EXCEPT !.pc = "idle"]]

AuthInit == visit = [v \in Visits |-> NewVisit]

\* The sign-up or the sign-in page is asked for: AuthLayout starts and
\* stops at `await headers()`.
AuthLayout(v, page) ==
    /\ visit[v].pc = "new"
    /\ visit' = [visit EXCEPT ![v] = [@ EXCEPT !.page = page, !.pc = "headers"]]
    /\ UNCHANGED notAuth

\* headers() resolves: getSession is called and awaited.
GetSession(v) ==
    /\ visit[v].pc = "headers"
    /\ visit' = [visit EXCEPT ![v] = [@ EXCEPT !.pc = "getSession"]]
    /\ UNCHANGED notAuth

\* getSession resolves, and the layout runs to its end.
SessionResolves(v, s) ==
    /\ visit[v].pc = "getSession"
    /\ visit' = [visit EXCEPT ![v] = AfterSession(@, s)]
    /\ UNCHANGED notAuth

\* getSession rejects: the await throws and the layout ends there.
SessionRejects(v) ==
    /\ visit[v].pc = "getSession"
    /\ visit' = [visit EXCEPT ![v] = [@ EXCEPT !.pc = "failed"]]
    /\ UNCHANGED notAuth

AuthNext ==
    \/ \E v \in Visits, page \in {"sign-up", "sign-in"} : AuthLayout(v, page)
    \/ \E v \in Visits : GetSession(v)
    \/ \E v \in Visits, s \in Sessions : SessionResolves(v, s)
    \/ \E v \in Visits : SessionRejects(v)

\* C12: AuthLayout first awaits the session lookup; with a session it
\* redirects to /dashboard and never renders its children, without one it
\* renders its children and redirects nowhere.
C12_RedirectOrRender ==
    \A v \in Visits :
        /\ ~visit[v].looked =>
              (visit[v].redirect = "" /\ ~visit[v].rendered)
        /\ (visit[v].looked /\ Truthy(visit[v].session)) =>
              (visit[v].redirect = "/dashboard" /\ ~visit[v].rendered)
        /\ (visit[v].looked /\ ~Truthy(visit[v].session)) =>
              (visit[v].rendered /\ visit[v].redirect = "")

C12_Witness ==
    /\ \E v \in Visits :
          /\ visit[v].page = "sign-up"
          /\ visit[v].session = Session(1)
          /\ visit[v].pc = "redirected"
    /\ \E v \in Visits :
          /\ visit[v].page = "sign-in"
          /\ visit[v].session = Null
          /\ visit[v].pc = "rendered"

(***************************************************************************)
(* src/unnamed/part_001: SignUp                                            *)
(***************************************************************************)
\* What may stand in the three inputs.
Names == {"", "Ann"}
Emails == {"", "ann@x.io"}
Passwords == {"", "pw"}

\* The two buttons of the form (lines 73-80): the type attribute as
\* written ("" when there is none) and the onClick handler.
SignupButton == [label |-> "Signup", type |-> "submit", onClick |-> "none"]
GoogleButton == [label |-> "SignUp with Google", type |-> "",
                 onClick |-> "handleGoogleSignUp"]
Buttons == {SignupButton, GoogleButton}

\* The type a <button> has: without a type attribute it is a submit button.
EffectiveType(b) ==
    IF b.type = "" THEN "submit" ELSE b.type

\* handleSubmit up to its await: the call of authClient.signUp.email,
\* added to the calls `reqs`; `by` is the button whose click submitted.
handleSubmit(reqs, by) ==
    Append(reqs, [name |-> name, email |-> email, password |-> password,
                  callbackURL |-> "/dashboard", status |-> "pending",
                  redirects |-> <<>>, by |-> by])

\* handleGoogleSignUp up to its await: the call of authClient.signIn.social
handleGoogleSignUp(reqs) == Append(reqs, [provider |-> "google"])

\* A request ended, with redirect() called whatever it came to, as it
\* would be after the await.
RespondedRedirectingAlways(r, outcome) ==
    [r EXCEPT !.status = outcome, !.redirects = Append(@, "/dashboard")]

\* The sign-up request r ended: onSuccess calls redirect("/dashboard"),
\* onError only logs.
Responded(r, outcome) ==
    IF outcome = "success"
    THEN [r EXCEPT !.status = outcome, !.redirects = Append(@, "/dashboard")]
    ELSE [r EXCEPT !.status = outcome]

FormIdle ==
    /\ formPc = "idle"
    /\ name = "" /\ email = "" /\ password = ""
    /\ emailReqs = <<>> /\ socialReqs = <<>>
    /\ submits = 0
    /\ lastAction = [kind |-> "none", what |-> ""]

\* The form as first rendered: useState("") three times.
FormInit ==
    /\ formPc = "shown"
    /\ name = "" /\ email = "" /\ password = ""
    /\ emailReqs = <<>> /\ socialReqs = <<>>
    /\ submits = 0
    /\ lastAction = [kind |-> "none", what |-> ""]

\* onChange of the three inputs
SetName(v) ==
    /\ formPc = "shown" /\ v # name
    /\ name' = v
    /\ lastAction' = [kind |-> "type", what |-> ""]
    /\ UNCHANGED <<formPc, email, password, emailReqs, socialReqs, submits, notForm>>

SetEmail(v) ==
    /\ formPc = "shown" /\ v # email
    /\ email' = v
    /\ lastAction' = [kind |-> "type", what |-> ""]
    /\ UNCHANGED <<formPc, name, password, emailReqs, socialReqs, submits, notForm>>

SetPassword(v) ==
    /\ formPc = "shown" /\ v # password
    /\ password' = v
    /\ lastAction' = [kind |-> "type", what |-> ""]
    /\ UNCHANGED <<formPc, name, email, emailReqs, socialReqs, submits, notForm>>

\* A click on a button of the form: its onClick handler runs, and then,
\* the button being a submit button, the form is submitted: onSubmit
\* runs handleSubmit.
ClickButton(b) ==
    /\ formPc = "shown"
    /\ Len(socialReqs) < MaxClicks /\ submits < MaxClicks
    /\ socialReqs' = IF b.onClick = "handleGoogleSignUp"
                     THEN handleGoogleSignUp(socialReqs) ELSE socialReqs
    /\ IF EffectiveType(b) = "submit"
       THEN /\ emailReqs' = handleSubmit(emailReqs, b.label)
            /\ submits' = submits + 1
       ELSE UNCHANGED <<emailReqs, submits>>
    /\ lastAction' = [kind |-> "click", what |-> b.label]
    /\ UNCHANGED <<formPc, name, email, password, notForm>>

\* The sign-up request k ends: onSuccess or onError runs.
EmailResponse(k, outcome) ==
    /\ emailReqs[k].status = "pending"
    /\ emailReqs' = [emailReqs EXCEPT ![k] = Responded(@, outcome)]
    /\ UNCHANGED <<formPc, name, email, password, socialReqs, submits,
                   lastAction, notForm>>

FormNext ==
    \/ \E v \in Names : SetName(v)
    \/ \E v \in Emails : SetEmail(v)
    \/ \E v \in Passwords : SetPassword(v)
    \/ \E b \in Buttons : ClickButton(b)
    \/ \E k \in 1..Len(emailReqs), outcome \in {"success", "error"} :
          EmailResponse(k, outcome)

\* C13: submitting sends one email sign-up request carrying the current
\* name, email and password with callbackURL /dashboard; redirect to
\* /dashboard is called only after that request succeeded (onSuccess), and
\* not at all when it failed (onError).
C13_RedirectOnlyOnSuccess ==
    /\ Len(emailReqs) = submits
    /\ \A k \in 1..Len(emailReqs) :
          /\ emailReqs[k].callbackURL = "/dashboard"
          /\ emailReqs[k].name \in Names
          /\ emailReqs[k].redirects # <<>> =>
                /\ emailReqs[k].status = "success"
                /\ emailReqs[k].redirects = <<"/dashboard">>
          /\ emailReqs[k].status \in {"error", "pending"} =>
                emailReqs[k].redirects = <<>>
    /\ lastAction = [kind |-> "click", what |-> SignupButton.label] =>
          /\ emailReqs # <<>>
          /\ emailReqs[Len(emailReqs)].name = name
          /\ emailReqs[Len(emailReqs)].email = email
          /\ emailReqs[Len(emailReqs)].password = password
          /\ emailReqs[Len(emailReqs)].by = SignupButton.label

C13_Witness ==
    /\ \E k \in 1..Len(emailReqs) :
          /\ emailReqs[k].by = SignupButton.label
          /\ emailReqs[k].name = "Ann"
          /\ emailReqs[k].email = "ann@x.io"
          /\ emailReqs[k].password = "pw"
          /\ emailReqs[k].status = "success"
          /\ emailReqs[k].redirects = <<"/dashboard">>
    /\ \E k \in 1..Len(emailReqs) :
          /\ emailReqs[k].status = "error"
          /\ emailReqs[k].redirects = <<>>

\* C16: a click on 'SignUp with Google' starts only the Google sign-in
\* (handleGoogleSignUp): it does not submit the form, so handleSubmit does
\* not run and no email sign-up request is sent because of that click.
C16_GoogleClickDoesNotSubmit ==
    /\ \A k \in 1..Len(emailReqs) : emailReqs[k].by # GoogleButton.label
    /\ lastAction = [kind |-> "click", what |-> GoogleButton.label] =>
          socialReqs # <<>>

\* What the click does: the Google sign-in starts, and the form is
\* submitted as well.
GoogleClickAlsoSubmits ==
    lastAction = [kind |-> "click", what |-> GoogleButton.label] =>
        /\ socialReqs # <<>>
        /\ socialReqs[Len(socialReqs)].provider = "google"
        /\ emailReqs # <<>>
        /\ emailReqs[Len(emailReqs)].by = GoogleButton.label

(***************************************************************************)
(* Specifications                                                          *)
(***************************************************************************)
InitMap == MapInit /\ StarIdle /\ DIIdle /\ DiscIdle /\ AuthIdle /\ FormIdle

SpecMap == InitMap /\ [][MapNext]_vars

InitStar == StarInit /\ MapIdle /\ DIIdle /\ DiscIdle /\ AuthIdle /\ FormIdle

SpecStar == InitStar /\ [][StarNext]_vars

InitDI == DIInit /\ MapIdle /\ StarIdle /\ DiscIdle /\ AuthIdle /\ FormIdle

SpecDI == InitDI /\ [][DINext]_vars

InitDisc == DiscInit /\ MapIdle /\ StarIdle /\ DIIdle /\ AuthIdle /\ FormIdle

SpecDisc == InitDisc /\ [][DiscNext]_vars

InitAuth == AuthInit /\ MapIdle /\ StarIdle /\ DIIdle /\ DiscIdle /\ FormIdle

SpecAuth == InitAuth /\ [][AuthNext]_vars

InitForm == FormInit /\ MapIdle /\ StarIdle /\ DIIdle /\ DiscIdle /\ AuthIdle

SpecForm == InitForm /\ [][FormNext]_vars

====
